---------------------------- MODULE Spec2Model ----------------------------
(***************************************************************************)
(* Model of src/Encoder.py: one Transformer encoder layer.                 *)
(*                                                                         *)
(* Tensors are rank-3 arrays <<batch, position, feature>> of integers,     *)
(* held in a heap of tensor objects so that Python's reference semantics   *)
(* (x, residual and redisual are names bound to tensor objects, add_       *)
(* writes into the object its receiver names) is part of the model.        *)
(* Floating point is abstracted by integer arithmetic.  The positional     *)
(* table of shape (k, d_model) is held as a tensor of shape                *)
(* (1, k, d_model): torch aligns shapes from the right and pads the        *)
(* shorter one with 1 on the left, so the two broadcast identically.       *)
(***************************************************************************)
EXTENDS Integers, Sequences, FiniteSets, TLC

VARIABLES
    self,       \* the encoder's fields: d_model, k, PE (a reference), layerNorm1/2
    heap,       \* tensor objects: id -> value (<<>> when not allocated)
    pc,         \* per thread: position in forward
    x,          \* per thread: local name x of forward (a reference)
    residual,   \* per thread: local name residual of forward (a reference)
    redisual,   \* per thread: local name redisual of forward (a reference)
    arg,        \* per thread: the caller's tensor passed to the running call
    x0,         \* per thread: value of the caller's tensor when the call began
    ret,        \* per thread: the reference forward returned
    seen,       \* per thread: value of the caller's tensor when forward returned
    T0,         \* per caller tensor: its value before any call
    nret,       \* per caller tensor: number of calls on it that returned
    ncalls      \* number of calls begun

vars == <<self, heap, pc, x, residual, redisual, arg, x0, ret, seen, T0, nret, ncalls>>

\* ------------------------------------------------------------------ bounds
MaxLen == 2      \* table length k ranges over 1..MaxLen, input length K over 1..MaxLen+1
MaxModel == 2    \* d_model and the input's last dimension range over 1..MaxModel
MaxSeed == 1     \* batch elements are generated from seeds 0..MaxSeed
MaxCalls == 2    \* number of forward calls in one behaviour

\* ------------------------------------------------------------------ objects
Null == -1
PEId == 0
CallerIds == {1, 2}
Threads == {1, 2}
\* the results of the sub-blocks written to buffers shared by all calls
TmpIdShared(c, s) == 2 + s
\* the tensor a sub-block returns is a fresh object: one per thread and per call site
\* (1: attention, 2: layerNorm1, 3: feedForward, 4: layerNorm2)
TmpId(c, s) == 2 + 4 * (c - 1) + s
TmpIds == {TmpId(c, s) : c \in Threads, s \in 1..4}
Ids == {PEId} \cup CallerIds \cup TmpIds

\* ------------------------------------------------------------------ tensors
RECURSIVE SumSeq(_)
SumSeq(s) == IF s = <<>> THEN 0 ELSE Head(s) + SumSeq(Tail(s))

Shape(t) == <<Len(t), Len(t[1]), Len(t[1][1])>>
Batch(t) == Len(t)
Length(t) == Len(t[1])
LastDim(t) == Len(t[1][1])

Relu(n) == IF n > 0 THEN n ELSE 0

\* index into a dimension of size n that is broadcast when n = 1
Bx(n, i) == IF n = 1 THEN 1 ELSE i

\* a, b broadcastable (torch: sizes equal, or one of them 1)
Broadcastable(a, b) ==
    \A d \in 1..3 : Shape(a)[d] = Shape(b)[d] \/ Shape(a)[d] = 1 \/ Shape(b)[d] = 1

\* in-place a.add_(b): the broadcast shape must be a's own shape
AddOk(a, b) == \A d \in 1..3 : Shape(b)[d] \in {Shape(a)[d], 1}

AddVal(a, b) ==
    [bb \in 1..Batch(a) |-> [i \in 1..Length(a) |-> [j \in 1..LastDim(a) |->
        a[bb][i][j] + b[Bx(Batch(b), bb)][Bx(Length(b), i)][Bx(LastDim(b), j)]]]]


\* a + b out of place: the result takes the broadcast shape
BroadcastVal(a, b) ==
    LET nb == IF Batch(a) = 1 THEN Batch(b) ELSE Batch(a)
        nk == IF Length(a) = 1 THEN Length(b) ELSE Length(a)
        nd == IF LastDim(a) = 1 THEN LastDim(b) ELSE LastDim(a)
    IN  [bb \in 1..nb |-> [i \in 1..nk |-> [j \in 1..nd |->
            a[Bx(Batch(a), bb)][Bx(Length(a), i)][Bx(LastDim(a), j)]
          + b[Bx(Batch(b), bb)][Bx(Length(b), i)][Bx(LastDim(b), j)]]]]

\* torch.Tensor.add_ with its roles exchanged: src.add_(dst)
add_swapped(h, dst, src) ==
    IF AddOk(h[src], h[dst])
    THEN [ok |-> TRUE, heap |-> [h EXCEPT ![src] = AddVal(h[src], h[dst])]]
    ELSE [ok |-> FALSE, heap |-> h]

\* dst = dst + src: the sum takes the broadcast shape instead of dst's shape
add_resizing(h, dst, src) ==
    IF Broadcastable(h[dst], h[src])
    THEN [ok |-> TRUE, heap |-> [h EXCEPT ![dst] = BroadcastVal(h[dst], h[src])]]
    ELSE [ok |-> FALSE, heap |-> h]

\* torch.Tensor.add_: dst.add_(src) writes dst + src into the object dst names,
\* or raises (ok = FALSE, nothing written) when src does not broadcast to dst's shape
add_(h, dst, src) ==
    IF AddOk(h[dst], h[src])
    THEN [ok |-> TRUE, heap |-> [h EXCEPT ![dst] = AddVal(h[dst], h[src])]]
    ELSE [ok |-> FALSE, heap |-> h]

\* ------------------------------------------------------------------ sub-blocks
\* src.utils.generate_positional_encoding(k, d_model): a fixed table, rows distinct
generate_positional_encoding(k, d_model) ==
    << [i \in 1..k |-> [j \in 1..d_model |-> i + j - 1]] >>

\* src.blocks.MultiHeadAttention: per batch element, every position attends to
\* every position of the same element (scores are the dot products)
Dot(u, w) == SumSeq([j \in 1..Len(u) |-> u[j] * w[j]])

MultiHeadAttention(query, key, value) ==
    [bb \in 1..Batch(query) |-> [i \in 1..Length(query) |-> [j \in 1..LastDim(value) |->
        SumSeq([i2 \in 1..Length(key) |->
            Dot(query[bb][i], key[bb][i2]) * value[bb][i2][j]])]]]

\* src.blocks.PositionwiseFeedForward: the same transform at every position
PositionwiseFeedForward(t) ==
    [bb \in 1..Batch(t) |-> [i \in 1..Length(t) |-> [j \in 1..LastDim(t) |->
        Relu(SumSeq(t[bb][i]) - j) + 2 * Relu(j - t[bb][i][j])]]]

\* nn.LayerNorm(d_model) as constructed: weight 1, bias 0
LayerNormInit == [weight |-> 1, bias |-> 0]

\* normalisation over the batch dimension as well (a BatchNorm-like statistic)
LayerNormOverBatch(p, t) ==
    [bb \in 1..Batch(t) |-> [i \in 1..Length(t) |-> [j \in 1..LastDim(t) |->
        p.weight * (Batch(t) * LastDim(t) * t[bb][i][j]
                    - SumSeq([b2 \in 1..Batch(t) |-> SumSeq(t[b2][i])])) + p.bias]]]

\* nn.LayerNorm forward: per position, over the last dimension.  (v - mean) is
\* kept scaled by the dimension, d*v - sum(v); the division by the standard
\* deviation is abstracted away.
LayerNorm(p, t) ==
    [bb \in 1..Batch(t) |-> [i \in 1..Length(t) |-> [j \in 1..LastDim(t) |->
        p.weight * (LastDim(t) * t[bb][i][j] - SumSeq(t[bb][i])) + p.bias]]]

Zeros(nb, nk, nd) == [bb \in 1..nb |-> [i \in 1..nk |-> [j \in 1..nd |-> 0]]]

\* ------------------------------------------------------------------ inputs
\* one batch element of K positions and D features, generated from a seed
Elem(s, K, D) == [i \in 1..K |-> [j \in 1..D |-> (s + i * j) % 3]]
Seeds == 0..MaxSeed
SeedLists == {<<s>> : s \in Seeds} \cup {<<s, t>> : s \in Seeds, t \in Seeds}
Input(ss, K, D) == [bb \in 1..Len(ss) |-> Elem(ss[bb], K, D)]

\* ------------------------------------------------------------------ Encoder
\* Encoder.__init__(d_model, q, v, h, k); the caller holds two tensors
Init ==
    \E dm \in 1..MaxModel, k \in 1..MaxLen, K \in 1..(MaxLen + 1), K2 \in 1..(MaxLen + 1),
       D \in 1..MaxModel, s1 \in SeedLists :
        /\ self = [d_model |-> dm, k |-> k, PE |-> PEId,
                   layerNorm1 |-> LayerNormInit, layerNorm2 |-> LayerNormInit]
        /\ heap = [id \in Ids |->
                     IF id = PEId THEN generate_positional_encoding(k, dm)
                     ELSE IF id = 1 THEN Input(s1, K, D)
                     ELSE IF id = 2 THEN Input(<<0>>, K2, D)
                     ELSE <<>>]
        /\ T0 = [t \in CallerIds |-> IF t = 1 THEN Input(s1, K, D) ELSE Input(<<0>>, K2, D)]
        /\ pc = [c \in Threads |-> "idle"]
        /\ x = [c \in Threads |-> Null]
        /\ residual = [c \in Threads |-> Null]
        /\ redisual = [c \in Threads |-> Null]
        /\ arg = [c \in Threads |-> Null]
        /\ x0 = [c \in Threads |-> <<>>]
        /\ ret = [c \in Threads |-> Null]
        /\ seen = [c \in Threads |-> <<>>]
        /\ nret = [t \in CallerIds |-> 0]
        /\ ncalls = 0

Active(c) == pc[c] \notin {"idle", "returned", "raised"}

\* the caller invokes forward(t) on thread c; no two running calls share a tensor
Call(c, t) ==
    /\ ~Active(c)
    /\ ncalls < MaxCalls
    /\ \A c2 \in Threads \ {c} : Active(c2) => arg[c2] # t
    /\ pc' = [pc EXCEPT ![c] = "L70"]
    /\ x' = [x EXCEPT ![c] = t]
    /\ residual' = [residual EXCEPT ![c] = Null]
    /\ redisual' = [redisual EXCEPT ![c] = Null]
    /\ arg' = [arg EXCEPT ![c] = t]
    /\ x0' = [x0 EXCEPT ![c] = heap[t]]
    /\ ret' = [ret EXCEPT ![c] = Null]
    /\ seen' = [seen EXCEPT ![c] = <<>>]
    /\ ncalls' = ncalls + 1
    /\ UNCHANGED <<self, heap, T0, nret>>

\* line 70: x.add_(self._PE)
AddPE(c) ==
    /\ pc[c] = "L70"
    /\ LET r == add_(heap, x[c], self.PE)
       IN  /\ heap' = r.heap
           /\ pc' = [pc EXCEPT ![c] = IF r.ok THEN "L73" ELSE "raised"]
    /\ UNCHANGED <<self, x, residual, redisual, arg, x0, ret, seen, T0, nret, ncalls>>

\* lines 73-74: residual = x; x = self._selfAttention(query=x, key=x, value=x).
\* On an input whose last dimension is not d_model the sub-block's behaviour is
\* not fixed here: it raises, or returns a tensor of the input's shape or of
\* shape (B, K, d_model).
SelfAttention(c) ==
    /\ pc[c] = "L73"
    /\ residual' = [residual EXCEPT ![c] = x[c]]
    /\ LET in == heap[x[c]]
           a  == TmpId(c, 1)
       IN  IF LastDim(in) = self.d_model
           THEN /\ heap' = [heap EXCEPT ![a] = MultiHeadAttention(in, in, in)]
                /\ x' = [x EXCEPT ![c] = a]
                /\ pc' = [pc EXCEPT ![c] = "L75"]
           ELSE \E o \in {"raise", "same", "model"} :
                IF o = "raise"
                THEN /\ pc' = [pc EXCEPT ![c] = "raised"]
                     /\ UNCHANGED <<heap, x>>
                ELSE /\ heap' = [heap EXCEPT ![a] =
                                   IF o = "same" THEN MultiHeadAttention(in, in, in)
                                   ELSE Zeros(Batch(in), Length(in), self.d_model)]
                     /\ x' = [x EXCEPT ![c] = a]
                     /\ pc' = [pc EXCEPT ![c] = "L75"]
    /\ UNCHANGED <<self, redisual, arg, x0, ret, seen, T0, nret, ncalls>>

\* line 75: x.add_(residual)
AddResidual1(c) ==
    /\ pc[c] = "L75"
    /\ LET r == add_(heap, x[c], residual[c])
       IN  /\ heap' = r.heap
           /\ pc' = [pc EXCEPT ![c] = IF r.ok THEN "L76" ELSE "raised"]
    /\ UNCHANGED <<self, x, residual, redisual, arg, x0, ret, seen, T0, nret, ncalls>>

\* line 76: x = self._layerNorm1(x); raises unless the last dimension is d_model
LayerNorm1(c) ==
    /\ pc[c] = "L76"
    /\ IF LastDim(heap[x[c]]) = self.d_model
       THEN /\ heap' = [heap EXCEPT ![TmpId(c, 2)] = LayerNorm(self.layerNorm1, heap[x[c]])]
            /\ x' = [x EXCEPT ![c] = TmpId(c, 2)]
            /\ pc' = [pc EXCEPT ![c] = "L79"]
       ELSE /\ pc' = [pc EXCEPT ![c] = "raised"]
            /\ UNCHANGED <<heap, x>>
    /\ UNCHANGED <<self, residual, redisual, arg, x0, ret, seen, T0, nret, ncalls>>

\* lines 79-80: redisual = x; x = self._feedForward(x)
FeedForward(c) ==
    /\ pc[c] = "L79"
    /\ redisual' = [redisual EXCEPT ![c] = x[c]]
    /\ heap' = [heap EXCEPT ![TmpId(c, 3)] = PositionwiseFeedForward(heap[x[c]])]
    /\ x' = [x EXCEPT ![c] = TmpId(c, 3)]
    /\ pc' = [pc EXCEPT ![c] = "L81"]
    /\ UNCHANGED <<self, residual, arg, x0, ret, seen, T0, nret, ncalls>>

\* line 81: x.add_(residual)
AddResidual2(c) ==
    /\ pc[c] = "L81"
    /\ LET r == add_(heap, x[c], residual[c])
       IN  /\ heap' = r.heap
           /\ pc' = [pc EXCEPT ![c] = IF r.ok THEN "L82" ELSE "raised"]
    /\ UNCHANGED <<self, x, residual, redisual, arg, x0, ret, seen, T0, nret, ncalls>>

\* line 82: x = self._layerNorm2(x)
LayerNorm2(c) ==
    /\ pc[c] = "L82"
    /\ IF LastDim(heap[x[c]]) = self.d_model
       THEN /\ heap' = [heap EXCEPT ![TmpId(c, 4)] = LayerNorm(self.layerNorm2, heap[x[c]])]
            /\ x' = [x EXCEPT ![c] = TmpId(c, 4)]
            /\ pc' = [pc EXCEPT ![c] = "L84"]
       ELSE /\ pc' = [pc EXCEPT ![c] = "raised"]
            /\ UNCHANGED <<heap, x>>
    /\ UNCHANGED <<self, residual, redisual, arg, x0, ret, seen, T0, nret, ncalls>>

\* line 84: return x
Return(c) ==
    /\ pc[c] = "L84"
    /\ ret' = [ret EXCEPT ![c] = x[c]]
    /\ seen' = [seen EXCEPT ![c] = heap[arg[c]]]
    /\ nret' = [nret EXCEPT ![arg[c]] = @ + 1]
    /\ pc' = [pc EXCEPT ![c] = "returned"]
    /\ UNCHANGED <<self, heap, x, residual, redisual, arg, x0, T0, ncalls>>

\* Encoder.forward, statement by statement
forward(c) ==
    \/ AddPE(c)
    \/ SelfAttention(c)
    \/ AddResidual1(c)
    \/ LayerNorm1(c)
    \/ FeedForward(c)
    \/ AddResidual2(c)
    \/ LayerNorm2(c)
    \/ Return(c)

\* one caller: calls follow one another
Next == (\E t \in CallerIds : Call(1, t)) \/ forward(1)
Spec == Init /\ [][Next]_vars

\* two callers, each on its own thread, each making one call
NextConc ==
    \E c \in Threads : (\E t \in CallerIds : pc[c] = "idle" /\ Call(c, t)) \/ forward(c)
SpecConc == Init /\ [][NextConc]_vars


\* ------------------------------------------------------------------ reference values
PEval == heap[self.PE]

\* forward(x) accepts x: the table broadcasts to x in place and the last dimension is d_model
forwardOk(xv) == AddOk(xv, PEval) /\ LastDim(xv) = self.d_model

\* Encoder.forward run alone on a tensor of value xv: the value left in the
\* caller's tensor and the value returned
forwardValue(xv) ==
    LET xp == AddVal(xv, PEval)
        a  == AddVal(MultiHeadAttention(xp, xp, xp), xp)
        y1 == LayerNorm(self.layerNorm1, a)
        f  == AddVal(PositionwiseFeedForward(y1), xp)
        y2 == LayerNorm(self.layerNorm2, f)
    IN  [input |-> xp, output |-> y2]

Started(c) == pc[c] # "idle"
PostAdd == {"L73", "L75", "L76", "L79", "L81", "L82", "L84"}
PostNorm1 == {"L79", "L81", "L82", "L84", "returned"}
\* the tensor object holding y1, the output of layerNorm1
Y1(c) == IF pc[c] = "L79" THEN x[c] ELSE redisual[c]

\* a + n * b, b broadcast to a's shape
AddTimes(a, b, n) ==
    [bb \in 1..Batch(a) |-> [i \in 1..Length(a) |-> [j \in 1..LastDim(a) |->
        a[bb][i][j] + n * b[Bx(Batch(b), bb)][Bx(Length(b), i)][Bx(LastDim(b), j)]]]]

InFlight(t) == IF \E c \in Threads : arg[c] = t /\ pc[c] \in PostAdd THEN 1 ELSE 0

\* ------------------------------------------------------------------ claims

\* C1: the value forward returns is Normalize2(FeedForward(y1) + y1), y1 the
\* output of the first normalization.
C1_ResidualIsY1 ==
    \A c \in Threads : pc[c] = "returned" =>
        heap[ret[c]] = LayerNorm(self.layerNorm2,
                          AddVal(PositionwiseFeedForward(heap[redisual[c]]), heap[redisual[c]]))

\* C2: a call whose input is longer than the table (K > k) raises at the
\* positional injection and never gets past it.
C2_TooLongRaises ==
    \A c \in Threads : (Started(c) /\ Length(x0[c]) > self.k) => pc[c] \in {"L70", "raised"}

\* C3: a call on an input of shape (B, K, d_model) with K <= k does not raise,
\* and after the positional injection x'[b][i] = x[b][i] + PE[i] for all b, i.
C3_PositionalInjection ==
    \A c \in Threads :
        (Started(c) /\ LastDim(x0[c]) = self.d_model /\ Length(x0[c]) <= self.k) =>
            /\ pc[c] # "raised"
            /\ pc[c] \in PostAdd \cup {"returned"} =>
                 heap[arg[c]] = [bb \in 1..Batch(x0[c]) |-> [i \in 1..Length(x0[c]) |->
                                   [j \in 1..self.d_model |-> x0[c][bb][i][j] + PEval[1][i][j]]]]

\* C4: attention is applied to x' three times over, the first residual is the
\* caller's tensor holding x' and is not altered by the addition into the
\* attention output, and y1 = Normalize1(Attention(x', x', x') + x').
C4_FirstResidual ==
    \A c \in Threads :
        LET xp == AddVal(x0[c], PEval)
        IN  /\ pc[c] = "L76" =>
                 /\ residual[c] = arg[c]
                 /\ x[c] # residual[c]
                 /\ heap[residual[c]] = xp
                 /\ heap[x[c]] = AddVal(MultiHeadAttention(xp, xp, xp), xp)
            /\ pc[c] \in PostNorm1 =>
                 /\ residual[c] = arg[c]
                 /\ heap[residual[c]] = xp
                 /\ heap[Y1(c)] = LayerNorm(self.layerNorm1,
                                     AddVal(MultiHeadAttention(xp, xp, xp), xp))

C4_Witness ==
    \E c \in Threads :
        /\ pc[c] = "returned"
        /\ heap[residual[c]] # x0[c]
        /\ heap[TmpId(c, 1)] # MultiHeadAttention(heap[residual[c]], heap[residual[c]], heap[residual[c]])
        /\ heap[redisual[c]] # heap[residual[c]]

\* C5: a call on an input of shape (B, K, d_model) with K <= k returns a tensor
\* of that shape, and x has that shape after every step.
C5_ShapePreserved ==
    \A c \in Threads :
        (Started(c) /\ LastDim(x0[c]) = self.d_model /\ Length(x0[c]) <= self.k) =>
            /\ pc[c] # "raised"
            /\ pc[c] \in PostAdd => Shape(heap[x[c]]) = Shape(x0[c])
            /\ pc[c] = "returned" => Shape(heap[ret[c]]) = Shape(x0[c])

\* C6: a call on an input whose last dimension is not d_model returns nothing:
\* it never gets past the first normalization.
C6_ShapeMismatchRaises ==
    \A c \in Threads :
        (Started(c) /\ LastDim(x0[c]) # self.d_model) =>
            /\ pc[c] \in {"L70", "L73", "L75", "L76", "raised"}
            /\ ret[c] = Null

C6_Witness ==
    /\ \E c \in Threads :
        /\ pc[c] = "raised"
        /\ LastDim(x0[c]) = 1
        /\ self.d_model > 1
        /\ Length(x0[c]) = self.k

\* C7: whatever calls were made, the positional table holds the value it was
\* constructed with, and the encoder's fields are as constructed.
C7_TableImmutable ==
    /\ self.PE = PEId
    /\ heap[self.PE] = generate_positional_encoding(self.k, self.d_model)
    /\ self.layerNorm1 = LayerNormInit
    /\ self.layerNorm2 = LayerNormInit

C7_Witness ==
    /\ pc[1] = "raised"
    /\ \E t \in CallerIds : nret[t] >= 1
    /\ ncalls >= 2

\* C8: under any interleaving of two calls on distinct tensors, a call that
\* reaches its return holds the output, and leaves in its input the value, that
\* forward run alone computes from the input's value at the call; and it raises
\* only if forward run alone raises.
C8_NoInterference ==
    \A c \in Threads :
        /\ pc[c] = "L84" =>
             /\ forwardOk(x0[c])
             /\ heap[x[c]] = forwardValue(x0[c]).output
             /\ heap[arg[c]] = forwardValue(x0[c]).input
        /\ pc[c] = "returned" =>
             /\ forwardOk(x0[c])
             /\ heap[ret[c]] = forwardValue(x0[c]).output
             /\ seen[c] = forwardValue(x0[c]).input
        /\ pc[c] = "raised" => ~forwardOk(x0[c])

C8_Witness ==
    /\ pc[1] = "L84"
    /\ pc[2] = "L84"
    /\ arg[1] # arg[2]
    /\ heap[x[1]] # heap[x[2]]

\* C9: for a batch of two elements with K <= k, forward returns for element b
\* what forward run on the batch holding element b alone returns, and raises
\* exactly when that run raises.
C9_BatchIndependence ==
    \A c \in Threads :
        (Started(c) /\ Batch(x0[c]) = 2 /\ Length(x0[c]) <= self.k) =>
            \A b \in 1..2 :
                LET one == << x0[c][b] >>
                IN  /\ pc[c] = "returned" =>
                         /\ forwardOk(one)
                         /\ << heap[ret[c]][b] >> = forwardValue(one).output
                    /\ pc[c] = "raised" => ~forwardOk(one)

C9_Witness ==
    \E c \in Threads :
        /\ pc[c] = "returned"
        /\ Batch(x0[c]) = 2
        /\ x0[c][1] # x0[c][2]
        /\ heap[ret[c]][1] # heap[ret[c]][2]

\* C10: a caller's tensor of shape (B, k, d_model) holds its first value plus
\* PE once for every call on it that got past the positional injection; no other
\* step of forward writes to it.
C10_InputAccumulatesPE ==
    \A t \in CallerIds :
        (Length(T0[t]) = self.k /\ LastDim(T0[t]) = self.d_model) =>
            heap[t] = AddTimes(T0[t], PEval, nret[t] + InFlight(t))

C10_Witness ==
    \E t \in CallerIds :
        /\ Length(T0[t]) = self.k
        /\ LastDim(T0[t]) = self.d_model
        /\ nret[t] >= 2
        /\ pc[1] = "returned"
        /\ heap[t] # T0[t]

=============================================================================
